---- MODULE Spec2Model ----
(***************************************************************************)
(* A model of the two collectors of the kurlyro repository.                *)
(*                                                                         *)
(*   commute_end.py  one run of main(): a KurlyDataCollector shared by two *)
(*                   get_data threads (today, yesterday), each with its    *)
(*                   own pool of page-fetch workers, and the main thread   *)
(*                   that transforms and writes each date as it completes. *)
(*   checkout.py     the endless loop around run(), sequential.            *)
(*                                                                         *)
(* Python values are encoded so that TLC can compare them: a string is     *)
(* Str(chars) with chars a tuple of one-character strings, None is the     *)
(* one-element tuple None, a JSON object is a function from a set of field *)
(* names (an absent key is a key outside its DOMAIN).                      *)
(***************************************************************************)
EXTENDS Integers, Sequences, FiniteSets, TLC

(***************************************************************************)
(* Bounds of the model.                                                    *)
(***************************************************************************)
\* the largest totalPages the upstream API reports to a get_data call that
\* runs alone
MaxPages == 3
\* the largest totalPages it reports when main runs both dates' calls
MaxPagesBoth == 2
\* records in a full page (the request's "size" parameter, scaled down)
PageSize == 2
\* the most records in a response of checkout.getdata, and in the data handed
\* to a call of update_spreadsheet on its own
MaxRecords == 2

\* the longest response checkout.process_data is applied to on its own
MaxResponse == 3

(***************************************************************************)
(* Python values.                                                          *)
(***************************************************************************)
None == <<"None">>

Str(chars) == <<"str", chars>>

\* the empty string ''
EmptyStr == Str(<<>>)

IsStr(v) == v[1] = "str"

\* bool(x) of a list
Truthy(list) == Len(list) > 0

RECURSIVE Concat(_)
\* the concatenation of a sequence of lists
Concat(lists) ==
    IF lists = <<>> THEN <<>> ELSE Head(lists) \o Concat(Tail(lists))

(***************************************************************************)
(* The HTTP session of KurlyDataCollector: requests.Session with           *)
(* HTTPAdapter(max_retries=Retry(total=3, status_forcelist=[500, 502, 503, *)
(* 504])) mounted on https://.                                             *)
(***************************************************************************)
\* Retry(total=3): the number of retries allowed after the first attempt
RetryTotal == 3

StatusForcelist == {500, 502, 503, 504}

\* an attempt that got no response at all (connection failure)
ConnError == 0

\* urllib3's Retry.RETRY_AFTER_STATUS_CODES
RetryAfterStatusCodes == {413, 429, 503}

\* the Retry-After header of a response: none, one that parse_retry_after
\* reads (seconds or an HTTP date), one with a value it cannot read, or one
\* with the empty value
RetryAfterHeaders == {"absent", "valid", "invalid", "empty"}

\* urlopen's has_retry_after, bool(response.headers.get("Retry-After")): the
\* header is there and its value is not empty
HasRetryAfter(answer) == answer.retryAfter \in {"valid", "invalid"}

\* Retry.get_retry_after raises InvalidHeader: the header is there (not
\* None) and parse_retry_after cannot read its value, the empty one included
InvalidRetryAfter(answer) == answer.retryAfter \in {"invalid", "empty"}

\* the answer to one attempt: its status (or ConnError), its Retry-After
\* header, and whether its body is the JSON document the collector reads
\* (data.content, data.totalPages)
Answer(status, retryAfter, json) ==
    [status |-> status, retryAfter |-> retryAfter, json |-> json]

\* what the upstream API answers to one attempt of a request
ServerAnswers ==
    {Answer(status, "absent", FALSE) :
        status \in {200, 401, 404, 413, 429, 501, 503, ConnError}}
        \cup {Answer(200, "absent", TRUE)}
        \cup {Answer(status, h, FALSE) :
                 status \in RetryAfterStatusCodes,
                 h \in RetryAfterHeaders \ {"absent"}}

\* Retry.is_retry for a GET whose Retry.total is `retries`, or a connection
\* failure: urlopen asks for a retry. A status of the force list is always
\* retried; one of RetryAfterStatusCodes is when has_retry_after is true and
\* Retry.total is not 0
IsRetry(answer, retries) ==
    \/ answer.status = ConnError
    \/ answer.status \in StatusForcelist
    \/ /\ retries # 0
       /\ HasRetryAfter(answer)
       /\ answer.status \in RetryAfterStatusCodes

\* a budget that counts the first attempt among its retries (off by one)
IsExhaustedCountingFirst(retries) == retries <= 0

\* Retry.is_exhausted of the policy that Retry.increment returns
IsExhausted(retries) == retries < 0

\* Retry.increment: the budget left after one more failed attempt
Increment(retries) == retries - 1

\* urlopen after one attempt was answered with `answer`, `retries` being the
\* budget left: give up (MaxRetryError of Retry.increment), fail in
\* Retry.sleep on a Retry-After header it cannot read (InvalidHeader), retry
\* with the decremented budget, or hand the response back
RetryStep(retries, answer) ==
    IF IsRetry(answer, retries)
    THEN IF IsExhausted(Increment(retries))
         THEN [next |-> "raise", total |-> Increment(retries)]
         ELSE IF InvalidRetryAfter(answer)
         THEN [next |-> "raise", total |-> Increment(retries)]
         ELSE [next |-> "retry", total |-> Increment(retries)]
    ELSE [next |-> "return", total |-> retries]

\* response.raise_for_status() after session.get: "ok", or the failure
RaiseForStatus(status) ==
    IF status = ConnError THEN "error"
    ELSE IF status = 401 THEN "unauthorized"
    ELSE IF status >= 400 THEN "error"
    ELSE "ok"

\* raise_for_status() and the subscripts of response.json() on the response
\* that session.get returned (lines 49-50, 78-81): "ok", or the failure
ResponseData(answer) ==
    IF RaiseForStatus(answer.status) # "ok" THEN RaiseForStatus(answer.status)
    ELSE IF answer.json THEN "ok"
    ELSE "error"

RECURSIVE GetOutcomes(_)
\* the outcomes of session.get, raise_for_status and the reading of the body
\* with `retries` retries left, over every answer the API may give to each
\* attempt
GetOutcomes(retries) ==
    UNION {LET step == RetryStep(retries, a) IN
           IF step.next = "retry" THEN GetOutcomes(step.total)
           ELSE IF step.next = "raise" THEN {RaiseForStatus(ConnError)}
           ELSE {ResponseData(a)} : a \in ServerAnswers}

\* the outcomes for a request that carries a bearer token, and for one that
\* carries none: the code treats the two alike, whatever the API answers
OutcomesAuthorized == GetOutcomes(RetryTotal)

OutcomesAnonymous == GetOutcomes(RetryTotal)

(***************************************************************************)
(* RecordTransformer: process_data of commute_end.py (8 columns, safe      *)
(* .get) and of checkout.py (7 columns, subscripts and .replace).          *)
(***************************************************************************)
Columns ==
    <<"name", "teamName", "userId", "centerShiftHourType", "startWorkDateTime",
      "endWorkDateTime", "overWorkMinuteTime", "overWorkStartMinuteTime">>

\* dict.get(key, default)
DictGet(item, key, default) ==
    IF key \in DOMAIN item THEN item[key] ELSE default

\* processed_item of commute_end.process_data
ProcessedItem(item) ==
    [c \in 1..Len(Columns) |-> DictGet(item, Columns[c], EmptyStr)]

\* commute_end.process_data
process_data(response) ==
    [i \in 1..Len(response) |-> ProcessedItem(response[i])]

\* the fields checkout.process_data subscripts for an IB record, in order
CheckoutFields ==
    <<"contractType", "userId", "name", "workProcess", "workProcessDetail",
      "checkInTime", "checkOutTime">>

\* the fields checkout.process_data calls .replace(' ', '') on
StrippedFields ==
    {"userId", "name", "workProcess", "workProcessDetail", "checkInTime"}

\* str.replace(' ', '')
StripSpaces(v) == Str(SelectSeq(v[2], LAMBDA ch : ch # " "))

IB == Str(<<"I", "B">>)

CONTRACT == Str(<<"C", "O", "N", "T", "R", "A", "C", "T">>)

\* the labels '상용직' (regular) and '일용직' (daily)
EmpRegular == Str(<<"regular">>)

EmpDaily == Str(<<"daily">>)

\* whether the loop body of checkout.process_data raises on record i:
\* KeyError on an absent key, AttributeError on None.replace
ItemRaises(i) ==
    \/ "workPart" \notin DOMAIN i
    \/ /\ i["workPart"] = IB
       /\ \E f \in {CheckoutFields[k] : k \in 1..Len(CheckoutFields)} :
             \/ f \notin DOMAIN i
             \/ f \in StrippedFields /\ ~IsStr(i[f])

\* the row checkout.process_data appends for an IB record
CheckoutRow(i) ==
    [c \in 1..Len(CheckoutFields) |->
        LET f == CheckoutFields[c] IN
        IF f = "contractType"
        THEN (IF i[f] = CONTRACT THEN EmpRegular ELSE EmpDaily)
        ELSE IF f \in StrippedFields THEN StripSpaces(i[f]) ELSE i[f]]

\* a process_data that leaves IB_datas in the order of the response
KeepOrder(list) == list

\* list.reverse()
Reverse(list) == [k \in 1..Len(list) |-> list[Len(list) + 1 - k]]

RECURSIVE IBDatas(_)
\* IB_datas after the loop of checkout.process_data over a response none of
\* whose records raises
IBDatas(response) ==
    IF response = <<>> THEN <<>>
    ELSE IF Head(response)["workPart"] = IB
         THEN <<CheckoutRow(Head(response))>> \o IBDatas(Tail(response))
         ELSE IBDatas(Tail(response))

\* checkout.process_data: the rows, or the exception re-raised
checkout_process_data(response) ==
    IF \E k \in 1..Len(response) : ItemRaises(response[k])
    THEN [raised |-> TRUE, rows |-> <<>>]
    ELSE [raised |-> FALSE, rows |-> Reverse(IBDatas(response))]

(***************************************************************************)
(* SinkSynchronizer: a worksheet is the sequence of its rows below the     *)
(* header (row k of the model is row k+1 of the sheet), a row the sequence *)
(* of its cells from column A on. A cell without a value reads '', the     *)
(* cells after a row's last value and the rows after the last row with a   *)
(* value do not exist.                                                     *)
(***************************************************************************)
EmptyRow == <<>>

\* batch_clear(["A2:G1000"]) / (["A2:H1000"]): the rows 2..1000 of the sheet
ClearRows == 999

\* commute_end.update_spreadsheet clears the columns A..H
ClearColumns == 8

\* checkout.update_spreadsheet clears the columns A..G
CheckoutClearColumns == 7

\* the one element of a one-element set; the operators below name their
\* arguments once, as x \in {argument}, so that each is evaluated once
The(S) == CHOOSE x \in S : TRUE

\* the last position of a sequence that does not hold `blank`, or 0
LastValue(seq, blank) ==
    LET held == {k \in 1..Len(seq) : seq[k] # blank}
    IN  IF held = {} THEN 0 ELSE CHOOSE k \in held : \A j \in held : j <= k

\* a row without the cells after its last value
TrimRow(row) == The({SubSeq(r, 1, LastValue(r, EmptyStr)) : r \in {row}})

\* a sheet without its trailing empty rows
Trim(content) == The({SubSeq(s, 1, LastValue(s, EmptyRow)) : s \in {content}})

\* a row whose first `width` cells have lost their values
ClearedRow(row, width) ==
    TrimRow([c \in 1..Len(row) |-> IF c <= width THEN EmptyStr ELSE row[c]])

\* worksheet.batch_clear of the first `width` columns of rows 2..1000: the
\* cells of the range lose their values, the other cells keep theirs
BatchClear(content, width) ==
    The({Trim([k \in 1..Len(s) |->
                  IF k <= ClearRows THEN ClearedRow(s[k], width) ELSE s[k]]) :
         s \in {content}})

\* the cell a value written by worksheet.update leaves where `old` was: a
\* null is skipped, '' empties the cell, any other value is stored
CellWritten(old, value) == IF value = None THEN old ELSE value

\* the row that writing the cells of `new` from column A on makes of `old`
WrittenRow(old, new) ==
    TrimRow([c \in 1..(IF Len(new) > Len(old) THEN Len(new) ELSE Len(old)) |->
                IF c <= Len(new)
                THEN CellWritten(IF c <= Len(old) THEN old[c] ELSE EmptyStr, new[c])
                ELSE old[c]])

\* worksheet.update('A2', data): the cells of data are written from A2 on,
\* the cells to the right of a written row and the rows below keep theirs
SheetUpdate(content, data) ==
    The({Trim([k \in 1..(IF Len(m) > Len(s) THEN Len(m) ELSE Len(s)) |->
                  IF k <= Len(m)
                  THEN WrittenRow(IF k <= Len(s) THEN s[k] ELSE EmptyRow, m[k])
                  ELSE s[k]]) :
         s \in {content}, m \in {data}})

\* what a blank worksheet holds once `data` was written to it
Stored(data) == SheetUpdate(<<>>, data)

\* where a call of update_spreadsheet can fail (SinkError)
SinkFaults == {"none", "open", "clear", "update"}

\* rows appended below the worksheet's content instead of replacing it
AppendRows(content, data, fault, width) ==
    IF fault = "none" THEN content \o Stored(data) ELSE content

\* the clear of `width` columns and the write of update_spreadsheet, with
\* the fault that ends it
ClearAndWrite(content, data, fault, width) ==
    IF fault = "none" THEN SheetUpdate(BatchClear(content, width), data)
    ELSE IF fault = "update" THEN BatchClear(content, width)
    ELSE content

\* the worksheet calls that update_spreadsheet makes when given rows
WorksheetCalls(fault) ==
    IF fault = "clear" THEN {"batch_clear"} ELSE {"batch_clear", "update"}

\* an update_spreadsheet that clears before it looks at the data
UpdateClearingFirst(content, data, fault) ==
    IF fault \in {"open", "clear"} THEN content
    ELSE IF Truthy(data) THEN ClearAndWrite(content, data, fault, ClearColumns)
    ELSE BatchClear(content, ClearColumns)

\* commute_end.update_spreadsheet: the worksheet's content afterwards
update_spreadsheet(content, data, fault) ==
    IF fault = "open" THEN content
    ELSE IF Truthy(data) THEN ClearAndWrite(content, data, fault, ClearColumns)
    ELSE content

\* checkout.update_spreadsheet: the worksheet's content afterwards
checkout_update_spreadsheet(content, data, fault) ==
    IF fault = "open" THEN content
    ELSE IF ~Truthy(data) THEN content
    ELSE ClearAndWrite(content, data, fault, CheckoutClearColumns)

\* the calls either update_spreadsheet makes on the worksheet
UpdateCalls(data, fault) ==
    IF fault = "open" \/ ~Truthy(data) THEN {} ELSE WorksheetCalls(fault)

\* whether that call of update_spreadsheet raises
UpdateRaises(data, fault) ==
    fault = "open" \/ (Truthy(data) /\ fault # "none")

(***************************************************************************)
(* State.                                                                  *)
(***************************************************************************)
VARIABLES
    \* --- the environment
    api,        \* upstream API: for each date, the pages of its collection
    issued,     \* number of tokens the login endpoint has issued
    rejected,   \* the tokens some request carrying them was answered 401
    sheet,      \* workbook "newdashboard raw": each worksheet's rows
    calls,      \* the batch_clear / update calls made on each worksheet
                \* (checkout.py: in the current iteration of the loop)
    \* --- commute_end.py: the collector shared by the two get_data threads
    token,      \* collector.token
    header,     \* collector.session.headers['authorization']
    pc,         \* each get_data thread's position
    recv,       \* login(): the token read from login_response
    bearer,     \* login(): the header value built at line 43 from self.token
    total,      \* get_data: total_pages
    result,     \* get_data: result
    fut,        \* get_data: the state of each page's future
    req,        \* the authorization header each in-flight page request carries
    handled,    \* main: what became of each date's future
    mpc,        \* main: where its loop over the futures is
    log,        \* the errors logged (checkout.py: in the current iteration)
    \* --- checkout.py: the loop around run()
    cpc,        \* position in run() / the loop
    cdate,      \* the date whose sub-cycle run() is in
    cdata,      \* today_data / yesterday_data: the rows of process_data
    attempted,  \* the dates whose sub-cycle this iteration has entered
    lastRun,    \* how the last run() ended
    \* --- one page fetch through the retrying adapter
    rState, rTotal, rAnswers,
    \* --- calls of process_data and update_spreadsheet on their own
    tRecord,    \* the record process_data is applied to
    tOut,       \* what it returned
    sData,      \* the records whose rows are synchronized
    sCall       \* the calls made so far: which function, how often, the
                \* worksheet after the first call, whether one raised

envVars == <<api, issued, rejected, sheet, calls>>

collectorVars ==
    <<token, header, bearer, pc, recv, total, result, fut, req, handled, mpc, log>>

checkoutVars == <<cpc, cdate, cdata, attempted, lastRun>>

retryVars == <<rState, rTotal, rAnswers>>

callVars == <<tRecord, tOut, sData, sCall>>

vars == <<envVars, collectorVars, checkoutVars, retryVars, callVars>>

(***************************************************************************)
(* The upstream API and the two dates of a run.                            *)
(***************************************************************************)
Dates == {"today", "yesterday"}

\* future_to_date of main / the worksheet names of run()
SheetName(d) == IF d = "today" THEN "today_kurlyro" ELSE "yesterday_kurlyro"

Sheets == {SheetName(d) : d \in Dates}

Letters ==
    <<"a", "b", "c", "d", "e", "f", "g", "h", "i", "j", "k", "l", "m",
      "n", "o", "p", "q", "r", "s", "t", "u", "v", "w", "x", "y", "z">>

\* one letter per date, to tell the dates' records apart
Tag(d) == IF d = "today" THEN "t" ELSE IF d = "yesterday" THEN "y" ELSE "o"

\* the i-th record of date d's collection, as the API serves it: a name, a
\* null userId, every other field absent
ApiRecord(d, i) ==
    [name |-> Str(<<Tag(d), Letters[i]>>), userId |-> None]

\* a collection of n pages whose last page holds k records
Paginate(d, n, k) ==
    [p \in 1..n |->
        [j \in 1..(IF p < n THEN PageSize ELSE k) |->
            ApiRecord(d, (p - 1) * PageSize + j)]]

\* the collections the API may hold for a date: 1..maxp full pages, or the
\* empty collection as one empty page
Collections(d, maxp) ==
    {Paginate(d, n, PageSize) : n \in 1..maxp} \cup {Paginate(d, 1, 0)}

\* the token of the n-th successful login
Token(n) == Str(<<"token", n>>)

\* pages 2..totalPages
LaterPages == 2..MaxPages

\* a record of an earlier day with a value for the last column
OldRecord(k) ==
    [name |-> Str(<<Tag("old"), Letters[k]>>),
     overWorkStartMinuteTime |-> Str(<<"9">>)]

\* the rows a worksheet may hold before the run, as an earlier run of
\* commute_end.py left them with values up to column H: more rows than any
\* run writes from checkout's responses
OldRows == Stored([k \in 1..(MaxRecords + 1) |-> ProcessedItem(OldRecord(k))])

(***************************************************************************)
(* commute_end.py: one run of main().                                      *)
(***************************************************************************)
\* the variables of the other programs, at rest
CheckoutIdle ==
    /\ cpc = "idle" /\ cdate = "today" /\ cdata = <<>>
    /\ attempted = {} /\ lastRun = "none"

RetryIdle == rState = "idle" /\ rTotal = 0 /\ rAnswers = <<>>

NoCall == [kind |-> "none", target |-> "none", n |-> 0, first |-> <<>>, raised |-> FALSE]

CallsIdle == tRecord = <<>> /\ tOut = <<>> /\ sData = <<>> /\ sCall = NoCall

\* main at line 187, between two futures
MainLoop == [at |-> "loop", date |-> "none"]

\* KurlyDataCollector.__init__ and a get_data call submitted for each of the
\* dates in `submitted`
InitCollector(submitted) ==
    /\ token = None
    /\ header = None
    /\ pc = [d \in Dates |-> IF d \in submitted THEN "check_token" ELSE "absent"]
    /\ recv = [d \in Dates |-> None]
    /\ bearer = [d \in Dates |-> None]
    /\ total = [d \in Dates |-> 0]
    /\ result = [d \in Dates |-> <<>>]
    /\ fut = [d \in Dates |-> [p \in LaterPages |-> "none"]]
    /\ req = [d \in Dates |-> [p \in {1} \cup LaterPages |-> None]]
    /\ handled = [d \in Dates |-> IF d \in submitted THEN "waiting" ELSE "absent"]
    /\ mpc = MainLoop
    /\ log = {}

\* the upstream API as it is when commute_end.py does not run
ApiIdle ==
    /\ api = [d \in Dates |-> Paginate(d, 1, 0)]
    /\ issued = 0
    /\ rejected = {}

\* the worksheets before the run: blank, or holding an earlier run's rows
InitSheets ==
    /\ \E rows \in {<<>>, OldRows} : sheet = [s \in Sheets |-> rows]
    /\ calls = {}

\* main: both dates' get_data calls submitted, the worksheets holding an
\* earlier run's rows
Init ==
    /\ api \in [Dates -> UNION {Collections(d, MaxPagesBoth) : d \in Dates}]
    /\ \A d \in Dates : api[d] \in Collections(d, MaxPagesBoth)
    /\ issued = 0
    /\ rejected = {}
    /\ sheet = [s \in Sheets |-> OldRows]
    /\ calls = {}
    /\ InitCollector(Dates)
    /\ CheckoutIdle /\ RetryIdle /\ CallsIdle

\* one get_data call on a fresh collector, its result handled as main does
InitCollect ==
    /\ api \in [Dates -> UNION {Collections(d, MaxPages) : d \in Dates}]
    /\ api["today"] \in Collections("today", MaxPages)
    /\ api["yesterday"] = Paginate("yesterday", 1, 0)
    /\ issued = 0
    /\ rejected = {}
    /\ InitSheets
    /\ InitCollector({"today"})
    /\ CheckoutIdle /\ RetryIdle /\ CallsIdle

\* get_data line 58: if not self.token
CheckToken(d) ==
    /\ pc[d] = "check_token"
    /\ pc' = [pc EXCEPT ![d] = IF token = None THEN "login_post" ELSE "first_page"]
    /\ UNCHANGED <<envVars, token, header, bearer, recv, total, result, fut, req, handled, mpc, log>>
    /\ UNCHANGED <<checkoutVars, retryVars, callVars>>

\* a get_data that answers a failed login by trying again
LoginPostRetrying(d) ==
    /\ pc[d] = "login_post"
    /\ \/ /\ issued' = issued + 1
          /\ recv' = [recv EXCEPT ![d] = Token(issued + 1)]
          /\ pc' = [pc EXCEPT ![d] = "login_store"]
          /\ log' = log
       \/ /\ pc' = [pc EXCEPT ![d] = "check_token"]
          /\ log' = log \cup {<<"get_data", d, "login">>}
          /\ UNCHANGED <<issued, recv>>
    /\ UNCHANGED <<api, rejected, sheet, calls, token, header, bearer, total, result, fut, req, handled, mpc>>
    /\ UNCHANGED <<checkoutVars, retryVars, callVars>>

\* login lines 37-41: the POST and raise_for_status; a failure leaves
\* get_data through its except clause
LoginPost(d) ==
    /\ pc[d] = "login_post"
    /\ \/ /\ issued' = issued + 1
          /\ recv' = [recv EXCEPT ![d] = Token(issued + 1)]
          /\ pc' = [pc EXCEPT ![d] = "login_store"]
          /\ log' = log
       \/ /\ pc' = [pc EXCEPT ![d] = "raised"]
          /\ log' = log \cup {<<"get_data", d, "login">>}
          /\ UNCHANGED <<issued, recv>>
    /\ UNCHANGED <<api, rejected, sheet, calls, token, header, bearer, total, result, fut, req, handled, mpc>>
    /\ UNCHANGED <<checkoutVars, retryVars, callVars>>

\* login line 42: self.token = ...
LoginStore(d) ==
    /\ pc[d] = "login_store"
    /\ token' = recv[d]
    /\ pc' = [pc EXCEPT ![d] = "login_header"]
    /\ UNCHANGED <<envVars, header, bearer, recv, total, result, fut, req, handled, mpc, log>>
    /\ UNCHANGED <<checkoutVars, retryVars, callVars>>

\* login line 43, the argument of session.headers.update: self.token is read
\* again and the header value built from it
LoginHeaderRead(d) ==
    /\ pc[d] = "login_header"
    /\ bearer' = [bearer EXCEPT ![d] = token]
    /\ pc' = [pc EXCEPT ![d] = "login_update"]
    /\ UNCHANGED <<envVars, token, header, recv, total, result, fut, req, handled, mpc, log>>
    /\ UNCHANGED <<checkoutVars, retryVars, callVars>>

\* login line 43: session.headers.update writes the header built, and login
\* returns
LoginHeader(d) ==
    /\ pc[d] = "login_update"
    /\ header' = bearer[d]
    /\ bearer' = [bearer EXCEPT ![d] = None]
    /\ pc' = [pc EXCEPT ![d] = "first_page"]
    /\ UNCHANGED <<envVars, token, recv, total, result, fut, req, handled, mpc, log>>
    /\ UNCHANGED <<checkoutVars, retryVars, callVars>>

\* the outcomes of a GET that carries authorization header h
Outcomes(h) == IF h = None THEN OutcomesAnonymous ELSE OutcomesAuthorized

\* the tokens known to be rejected once a request carrying h ended as o
Rejected(h, o) ==
    IF o = "unauthorized" /\ h # None THEN rejected \cup {h} ELSE rejected

\* a get_data that does not check the first response's status
AfterFirstPageUnchecked(o) == "dispatch"

\* get_data line 78, first_response.raise_for_status(): where get_data goes
\* once the first page's request ended as o
AfterFirstPage(o) == IF o = "ok" THEN "dispatch" ELSE "raised"

\* get_data line 77: the first page's request is sent, with the session's
\* headers as they are now
FirstPageSend(d) ==
    /\ pc[d] = "first_page"
    /\ req' = [req EXCEPT ![d][1] = header]
    /\ pc' = [pc EXCEPT ![d] = "first_response"]
    /\ UNCHANGED <<envVars, token, header, bearer, recv, total, result, fut, handled, mpc, log>>
    /\ UNCHANGED <<checkoutVars, retryVars, callVars>>

\* get_data lines 77-81: the first page's response; a failure leaves
\* get_data through its except clause
FirstPage(d) ==
    /\ pc[d] = "first_response"
    /\ \E o \in Outcomes(req[d][1]) :
          /\ rejected' = Rejected(req[d][1], o)
          /\ pc' = [pc EXCEPT ![d] = AfterFirstPage(o)]
          /\ IF o = "ok"
             THEN /\ total' = [total EXCEPT ![d] = Len(api[d])]
                  /\ result' = [result EXCEPT ![d] = api[d][1]]
                  /\ log' = log
             ELSE /\ log' = log \cup {<<"get_data", d, o>>}
                  /\ UNCHANGED <<total, result>>
    /\ req' = [req EXCEPT ![d][1] = None]
    /\ UNCHANGED <<api, issued, sheet, calls, token, header, bearer, recv, fut, handled, mpc>>
    /\ UNCHANGED <<checkoutVars, retryVars, callVars>>

\* range(2, total_pages): the last page left out
PageRangeExclusive(n) == 2..(n - 1)

\* range(2, total_pages + 1)
PageRange(n) == 2..n

\* the pages of range(2, total_pages + 1) not submitted yet
ToSubmit(d) ==
    {p \in DOMAIN fut[d] :
        total[d] > 1 /\ p \in PageRange(total[d]) /\ fut[d][p] = "none"}

\* get_data lines 84-93: the next page's future is submitted to the pool,
\* in ascending page order; after the last one get_data goes on to line 95
Dispatch(d) ==
    /\ pc[d] = "dispatch"
    /\ IF ToSubmit(d) = {}
       THEN pc' = [pc EXCEPT ![d] = "collect"] /\ fut' = fut
       ELSE LET page == CHOOSE p \in ToSubmit(d) : \A q \in ToSubmit(d) : p <= q
            IN  fut' = [fut EXCEPT ![d][page] = "queued"] /\ pc' = pc
    /\ UNCHANGED <<envVars, token, header, bearer, recv, total, result, req, handled, mpc, log>>
    /\ UNCHANGED <<checkoutVars, retryVars, callVars>>

\* ThreadPoolExecutor(max_workers=4)
MaxWorkers == 4

\* the page fetches of date d that a worker is running
Running(d) == {p \in DOMAIN fut[d] : fut[d][p] = "running"}

\* a pool that starts a thread for every page submitted
StartFetchUnbounded(d, p) ==
    /\ fut[d][p] = "queued"
    /\ fut' = [fut EXCEPT ![d][p] = "running"]
    /\ req' = [req EXCEPT ![d][p] = header]
    /\ UNCHANGED <<envVars, token, header, bearer, pc, recv, total, result, handled, mpc, log>>
    /\ UNCHANGED <<checkoutVars, retryVars, callVars>>

\* a worker of d's pool takes page p and get_page_data sends its request
\* (line 48), with the session's headers as they are now
StartFetch(d, p) ==
    /\ fut[d][p] = "queued"
    /\ Cardinality(Running(d)) < MaxWorkers
    /\ fut' = [fut EXCEPT ![d][p] = "running"]
    /\ req' = [req EXCEPT ![d][p] = header]
    /\ UNCHANGED <<envVars, token, header, bearer, pc, recv, total, result, handled, mpc, log>>
    /\ UNCHANGED <<checkoutVars, retryVars, callVars>>

\* get_page_data lines 48-53: the response arrives; a failure is logged and
\* the page is returned empty
FinishFetch(d, p) ==
    /\ fut[d][p] = "running"
    /\ \E o \in Outcomes(req[d][p]) :
          /\ rejected' = Rejected(req[d][p], o)
          /\ fut' = [fut EXCEPT ![d][p] = IF o = "ok" THEN "content" ELSE "empty"]
          /\ log' = IF o = "ok" THEN log ELSE log \cup {<<"page", d, p>>}
    /\ req' = [req EXCEPT ![d][p] = None]
    /\ UNCHANGED <<api, issued, sheet, calls, token, header, bearer, pc, recv, total, result, handled, mpc>>
    /\ UNCHANGED <<checkoutVars, retryVars, callVars>>

\* a get_data that loses the records of the later pages
FutureResultLost(d, p) == <<>>

\* future.result() of a finished page future
FutureResult(d, p) == IF fut[d][p] = "content" THEN api[d][p] ELSE <<>>

\* the futures as_completed may yield next: finished and not yet yielded
Completed(d) == {p \in DOMAIN fut[d] : fut[d][p] \in {"content", "empty"}}

\* get_data lines 95-96: as_completed yields a finished future and its
\* records are appended to result
Collect(d, p) ==
    /\ pc[d] = "collect"
    /\ p \in Completed(d)
    /\ result' = [result EXCEPT ![d] = result[d] \o FutureResult(d, p)]
    /\ fut' = [fut EXCEPT ![d][p] = "yielded"]
    /\ UNCHANGED <<envVars, token, header, bearer, pc, recv, total, req, handled, mpc, log>>
    /\ UNCHANGED <<checkoutVars, retryVars, callVars>>

\* a get_data that returns as soon as no finished future is left to yield,
\* without waiting for the pool
ReturnWithoutWaiting(d) ==
    /\ pc[d] = "collect"
    /\ Completed(d) = {}
    /\ pc' = [pc EXCEPT ![d] = "returned"]
    /\ UNCHANGED <<envVars, token, header, bearer, recv, total, result, fut, req, handled, mpc, log>>
    /\ UNCHANGED <<checkoutVars, retryVars, callVars>>

\* get_data line 98: every future was yielded, the pool is shut down
Return(d) ==
    /\ pc[d] = "collect"
    /\ \A p \in DOMAIN fut[d] : fut[d][p] \in {"none", "yielded"}
    /\ pc' = [pc EXCEPT ![d] = "returned"]
    /\ UNCHANGED <<envVars, token, header, bearer, recv, total, result, fut, req, handled, mpc, log>>
    /\ UNCHANGED <<checkoutVars, retryVars, callVars>>

\* main lines 190-193 for a future that returned data: the worksheet after
\* process_data and, if there are rows, update_spreadsheet
SubCycleSink(content, data, fault) ==
    IF Truthy(process_data(data))
    THEN update_spreadsheet(content, process_data(data), fault)
    ELSE content

\* whether lines 190-193 raise for that future
SubCycleRaises(data, fault) ==
    Truthy(process_data(data)) /\ UpdateRaises(process_data(data), fault)

\* a main whose try encloses the whole loop: the first failure ends it and
\* the futures not yet handled never are
HandledAborting(h, d, outcome) ==
    [e \in DOMAIN h |->
        IF e = d THEN outcome
        ELSE IF outcome = "failed" /\ h[e] = "waiting" THEN "aborted"
        ELSE h[e]]

\* main lines 189-195, the try around one future: what becomes of the dates'
\* futures once date d's was handled with `outcome`
Handled(h, d, outcome) == [h EXCEPT ![d] = outcome]

\* main lines 187-195 up to the worksheet being opened: as_completed yields
\* date d's future; an exception of get_data, of process_data or of the
\* opening of the worksheet is logged; without rows nothing is written
ProcessFuture(d) ==
    /\ mpc = MainLoop
    /\ handled[d] = "waiting"
    /\ pc[d] \in {"returned", "raised"}
    /\ IF pc[d] = "raised"
       THEN /\ handled' = Handled(handled, d, "failed")
            /\ log' = log \cup {<<"processing", d>>}
            /\ mpc' = mpc
       ELSE IF ~Truthy(process_data(result[d]))
       THEN /\ handled' = Handled(handled, d, "skipped")
            /\ UNCHANGED <<log, mpc>>
       ELSE \/ /\ handled' = Handled(handled, d, "failed")
               /\ log' = log \cup {<<"processing", d>>}
               /\ mpc' = mpc
            \/ /\ mpc' = [at |-> "batch_clear", date |-> d]
               /\ UNCHANGED <<handled, log>>
    /\ UNCHANGED <<envVars, token, header, bearer, pc, recv, total, result, fut, req>>
    /\ UNCHANGED <<checkoutVars, retryVars, callVars>>

\* update_spreadsheet line 138 for date d's rows: worksheet.batch_clear, or
\* its exception logged by main
ClearWorksheet(d) ==
    /\ mpc = [at |-> "batch_clear", date |-> d]
    /\ calls' = calls \cup {<<SheetName(d), "batch_clear">>}
    /\ \/ /\ sheet' = [sheet EXCEPT ![SheetName(d)] =
                           BatchClear(sheet[SheetName(d)], ClearColumns)]
          /\ mpc' = [at |-> "update", date |-> d]
          /\ UNCHANGED <<handled, log>>
       \/ /\ handled' = Handled(handled, d, "failed")
          /\ log' = log \cup {<<"processing", d>>}
          /\ mpc' = MainLoop
          /\ sheet' = sheet
    /\ UNCHANGED <<api, issued, rejected, token, header, bearer, pc, recv, total, result, fut, req>>
    /\ UNCHANGED <<checkoutVars, retryVars, callVars>>

\* update_spreadsheet line 139 for date d's rows: worksheet.update, or its
\* exception logged by main
WriteWorksheet(d) ==
    /\ mpc = [at |-> "update", date |-> d]
    /\ calls' = calls \cup {<<SheetName(d), "update">>}
    /\ \/ /\ sheet' = [sheet EXCEPT ![SheetName(d)] =
                           SheetUpdate(sheet[SheetName(d)], process_data(result[d]))]
          /\ handled' = Handled(handled, d, "written")
          /\ log' = log
       \/ /\ handled' = Handled(handled, d, "failed")
          /\ log' = log \cup {<<"processing", d>>}
          /\ sheet' = sheet
    /\ mpc' = MainLoop
    /\ UNCHANGED <<api, issued, rejected, token, header, bearer, pc, recv, total, result, fut, req>>
    /\ UNCHANGED <<checkoutVars, retryVars, callVars>>

Next ==
    \/ \E d \in Dates : CheckToken(d)
    \/ \E d \in Dates : LoginPost(d)
    \/ \E d \in Dates : LoginStore(d)
    \/ \E d \in Dates : LoginHeaderRead(d)
    \/ \E d \in Dates : LoginHeader(d)
    \/ \E d \in Dates : FirstPageSend(d)
    \/ \E d \in Dates : FirstPage(d)
    \/ \E d \in Dates : Dispatch(d)
    \/ \E d \in Dates, p \in LaterPages : StartFetch(d, p)
    \/ \E d \in Dates, p \in LaterPages : FinishFetch(d, p)
    \/ \E d \in Dates, p \in LaterPages : Collect(d, p)
    \/ \E d \in Dates : Return(d)
    \/ \E d \in Dates : ProcessFuture(d)
    \/ \E d \in Dates : ClearWorksheet(d)
    \/ \E d \in Dates : WriteWorksheet(d)

Spec == Init /\ [][Next]_vars

SpecCollect == InitCollect /\ [][Next]_vars

(***************************************************************************)
(* commute_end.py: get_data on a collection of more pages than the pool    *)
(* has workers.                                                            *)
(***************************************************************************)
\* the smallest number of pages with which a later page has to wait for a
\* worker: page 1 and one later page more than the pool's workers
PoolPages == MaxWorkers + 2

PoolLaterPages == 2..PoolPages

\* one get_data call on a fresh collector, for a collection of up to
\* PoolPages pages
InitPool ==
    /\ api \in [Dates -> UNION {Collections(d, PoolPages) : d \in Dates}]
    /\ api["today"] \in Collections("today", PoolPages)
    /\ api["yesterday"] = Paginate("yesterday", 1, 0)
    /\ issued = 0
    /\ rejected = {}
    /\ InitSheets
    /\ token = None
    /\ header = None
    /\ pc = [d \in Dates |-> IF d = "today" THEN "check_token" ELSE "absent"]
    /\ recv = [d \in Dates |-> None]
    /\ bearer = [d \in Dates |-> None]
    /\ total = [d \in Dates |-> 0]
    /\ result = [d \in Dates |-> <<>>]
    /\ fut = [d \in Dates |-> [p \in PoolLaterPages |-> "none"]]
    /\ req = [d \in Dates |-> [p \in {1} \cup PoolLaterPages |-> None]]
    /\ handled = [d \in Dates |-> IF d = "today" THEN "waiting" ELSE "absent"]
    /\ mpc = MainLoop
    /\ log = {}
    /\ CheckoutIdle /\ RetryIdle /\ CallsIdle

NextPool ==
    \/ \E d \in Dates : CheckToken(d)
    \/ \E d \in Dates : LoginPost(d)
    \/ \E d \in Dates : LoginStore(d)
    \/ \E d \in Dates : LoginHeaderRead(d)
    \/ \E d \in Dates : LoginHeader(d)
    \/ \E d \in Dates : FirstPageSend(d)
    \/ \E d \in Dates : FirstPage(d)
    \/ \E d \in Dates : Dispatch(d)
    \/ \E d \in Dates, p \in PoolLaterPages : StartFetch(d, p)
    \/ \E d \in Dates, p \in PoolLaterPages : FinishFetch(d, p)
    \/ \E d \in Dates, p \in PoolLaterPages : Collect(d, p)
    \/ \E d \in Dates : Return(d)
    \/ \E d \in Dates : ProcessFuture(d)
    \/ \E d \in Dates : ClearWorksheet(d)
    \/ \E d \in Dates : WriteWorksheet(d)

SpecPool == InitPool /\ [][NextPool]_vars

(***************************************************************************)
(* commute_end.py: the pools of main's two concurrent get_data calls, each *)
(* on a collection of more later pages than its pool has workers.          *)
(***************************************************************************)
\* the pages that occupy the workers of a pool of MaxWorkers
BusyPages == 2..(MaxWorkers + 1)

\* main's two get_data calls after one login, each with PoolPages pages and
\* its first page read, at the moment both pools are full: every worker is
\* fetching one of the pages 2..5 and page 6, submitted, waits for a worker
InitPools ==
    /\ api = [d \in Dates |-> Paginate(d, PoolPages, PageSize)]
    /\ issued = 1
    /\ rejected = {}
    /\ sheet = [s \in Sheets |-> OldRows]
    /\ calls = {}
    /\ token = Token(1)
    /\ header = Token(1)
    /\ pc = [d \in Dates |-> "collect"]
    /\ recv = [d \in Dates |-> None]
    /\ bearer = [d \in Dates |-> None]
    /\ total = [d \in Dates |-> PoolPages]
    /\ result = [d \in Dates |-> api[d][1]]
    /\ fut = [d \in Dates |->
                 [p \in PoolLaterPages |->
                     IF p \in BusyPages THEN "running" ELSE "queued"]]
    /\ req = [d \in Dates |->
                 [p \in {1} \cup PoolLaterPages |->
                     IF p \in BusyPages THEN Token(1) ELSE None]]
    /\ handled = [d \in Dates |-> "waiting"]
    /\ mpc = MainLoop
    /\ log = {}
    /\ CheckoutIdle /\ RetryIdle /\ CallsIdle

\* the steps of the two pools' workers
NextPools ==
    \/ \E d \in Dates, p \in PoolLaterPages : StartFetch(d, p)
    \/ \E d \in Dates, p \in PoolLaterPages : FinishFetch(d, p)

\* the page fetches of date d that wait for a worker
Waiting(d) == {p \in DOMAIN fut[d] : fut[d][p] = "queued"}

\* the state of the two pools: the fetches that wait and those on the wire
poolVars == <<[d \in Dates |-> Waiting(d)], [d \in Dates |-> Running(d)]>>

\* the pools change by their workers' steps only. The other steps of the run
\* (the as_completed loops at lines 95-96 and 187-195, the returns, the
\* worksheet calls) go on meanwhile and leave poolVars as it is
SpecPools == InitPools /\ [][NextPools]_poolVars

(***************************************************************************)
(* checkout.py: the loop around run().                                     *)
(***************************************************************************)
\* a record of /v1/commutes/end as checkout.process_data reads it
CheckoutRecord(part, contract, name) ==
    [workPart |-> part, contractType |-> contract,
     userId |-> Str(<<"u", " ", "1">>), name |-> name,
     workProcess |-> Str(<<"p">>), workProcessDetail |-> Str(<<" ", "d">>),
     checkInTime |-> Str(<<"0", "9", " ", "0", "0">>), checkOutTime |-> None]

\* records process_data handles: two IB records and one of another work part
GoodRecords ==
    {CheckoutRecord(IB, CONTRACT, Str(<<"a", " ", "b">>)),
     CheckoutRecord(IB, Str(<<"D", "A", "Y">>), Str(<<"c">>)),
     CheckoutRecord(Str(<<"O", "B">>), CONTRACT, Str(<<"e">>))}

\* an IB record whose name is null
BadRecord == CheckoutRecord(IB, CONTRACT, None)

\* the lists of at most MaxRecords records of S
Lists(S) == UNION {[1..n -> S] : n \in 0..MaxRecords}

\* the responses getdata may return
CheckoutResponses == Lists(GoodRecords \cup {BadRecord})

\* the loop starts on worksheets that commute_end.py, which writes the same
\* two worksheets, has filled before
InitCheckout ==
    /\ ApiIdle
    /\ sheet = [s \in Sheets |-> OldRows]
    /\ calls = {}
    /\ InitCollector({})
    /\ cpc = "getdata" /\ cdate = "today" /\ cdata = <<>>
    /\ attempted = {} /\ lastRun = "none"
    /\ RetryIdle /\ CallsIdle

\* a loop without the except clause: an exception of run() ends the process
LoopNextUncaught(raised) == IF raised THEN "exit" ELSE "sleep"

\* the loop of lines 129-135: where it goes after run() returned or raised
LoopNext(raised) == "sleep"

\* run() raises in the sub-cycle of cdate: logged at line 124, re-raised, and
\* logged by the loop at line 133
RunRaises ==
    /\ cpc' = LoopNext(TRUE)
    /\ lastRun' = "failed"
    /\ log' = log \cup {<<"run", cdate>>, <<"main_loop">>}
    /\ cdata' = <<>>

\* run lines 111 and 117, process_data(getdata(date)): getdata logs in
\* afresh (the token lives in a local variable only) and GETs the date's
\* records, either of which may fail; process_data turns the response into
\* rows or raises
GetData ==
    /\ cpc = "getdata"
    /\ attempted' = attempted \cup {cdate}
    /\ \/ \E failure \in {"login", "get"} : RunRaises
       \/ \E response \in CheckoutResponses :
             IF checkout_process_data(response).raised
             THEN RunRaises
             ELSE /\ cdata' = checkout_process_data(response).rows
                  /\ cpc' = "update"
                  /\ UNCHANGED <<lastRun, log>>
    /\ UNCHANGED <<envVars, cdate>>
    /\ UNCHANGED <<token, header, bearer, pc, recv, total, result, fut, req, handled, mpc>>
    /\ UNCHANGED <<retryVars, callVars>>

\* run lines 112-113 and 118-119: the worksheet after the guarded update
RunSink(content, rows, fault) ==
    IF Len(rows) > 0 THEN checkout_update_spreadsheet(content, rows, fault)
    ELSE content

\* the calls made on the worksheet by those lines
RunCalls(rows, fault) == IF Len(rows) > 0 THEN UpdateCalls(rows, fault) ELSE {}

\* whether those lines raise
RunSinkRaises(rows, fault) == Len(rows) > 0 /\ UpdateRaises(rows, fault)

\* run lines 112-121: the update of cdate's worksheet with today_data /
\* yesterday_data, then on to yesterday or to the end of run()
Update ==
    /\ cpc = "update"
    /\ \E fault \in SinkFaults :
          LET rows == cdata IN
          /\ sheet' = [sheet EXCEPT ![SheetName(cdate)] =
                          RunSink(sheet[SheetName(cdate)], rows, fault)]
          /\ calls' = calls \cup {<<SheetName(cdate), c>> : c \in RunCalls(rows, fault)}
          /\ IF RunSinkRaises(rows, fault)
             THEN RunRaises /\ cdate' = cdate
             ELSE /\ cdata' = <<>>
                  /\ log' = log
                  /\ IF cdate = "today"
                     THEN cdate' = "yesterday" /\ cpc' = "getdata" /\ lastRun' = lastRun
                     ELSE cdate' = cdate /\ cpc' = LoopNext(FALSE) /\ lastRun' = "completed"
    /\ UNCHANGED <<api, issued, rejected, attempted>>
    /\ UNCHANGED <<token, header, bearer, pc, recv, total, result, fut, req, handled, mpc>>
    /\ UNCHANGED <<retryVars, callVars>>

\* line 135, then the next iteration's run()
Sleep ==
    /\ cpc = "sleep"
    /\ cpc' = "getdata"
    /\ cdate' = "today"
    /\ attempted' = {}
    /\ calls' = {}
    /\ log' = {}
    /\ UNCHANGED <<api, issued, rejected, sheet, cdata, lastRun>>
    /\ UNCHANGED <<token, header, bearer, pc, recv, total, result, fut, req, handled, mpc>>
    /\ UNCHANGED <<retryVars, callVars>>

NextCheckout == GetData \/ Update \/ Sleep

SpecCheckout == InitCheckout /\ [][NextCheckout]_vars

\* time.sleep(300) returns; the network calls of run() carry no timeout
\* (lines 56, 71) and nothing makes them return
SpecCheckoutFair == SpecCheckout /\ WF_vars(Sleep)

(***************************************************************************)
(* One call of get_page_data, attempt by attempt.                          *)
(***************************************************************************)
InitRetry ==
    /\ ApiIdle
    /\ InitSheets
    /\ InitCollector({})
    /\ CheckoutIdle /\ CallsIdle
    /\ rState = "sending" /\ rTotal = RetryTotal /\ rAnswers = <<>>

\* urlopen sends the request once more and the API answers
Attempt ==
    /\ rState = "sending"
    /\ \E a \in ServerAnswers :
          LET step == RetryStep(rTotal, a) IN
          /\ rAnswers' = Append(rAnswers, a)
          /\ rTotal' = step.total
          /\ rState' = IF step.next = "retry" THEN "sending"
                       ELSE IF step.next = "raise" THEN "raised"
                       ELSE "responded"
    /\ UNCHANGED <<envVars, collectorVars, checkoutVars, callVars>>

\* get_page_data lines 49-53: the content of the response, or the error
\* logged and the empty page
PageData ==
    /\ rState \in {"responded", "raised"}
    /\ IF rState = "responded" /\ ResponseData(rAnswers[Len(rAnswers)]) = "ok"
       THEN rState' = "content" /\ log' = log
       ELSE rState' = "empty" /\ log' = log \cup {<<"page", "today", 2>>}
    /\ UNCHANGED <<envVars, token, header, bearer, pc, recv, total, result, fut, req, handled, mpc>>
    /\ UNCHANGED <<checkoutVars, rTotal, rAnswers, callVars>>

NextRetry == Attempt \/ PageData

SpecRetry == InitRetry /\ [][NextRetry]_vars

(***************************************************************************)
(* process_data applied to one record, for every shape of record.          *)
(***************************************************************************)
\* the JSON objects over `fields`: each field absent, or one of `values`
Objects(fields, values) == UNION {[present -> values] : present \in SUBSET fields}

\* the fields commute_end.process_data reads
ColumnSet == {Columns[c] : c \in 1..Len(Columns)}

\* the fields checkout.process_data reads after workPart
CheckoutFieldSet == {CheckoutFields[c] : c \in 1..Len(CheckoutFields)}

\* a record for checkout.process_data: a workPart or none, and the fields
WithWorkPart(parts, rest) ==
    rest \cup {[f \in DOMAIN r \cup {"workPart"} |->
                   IF f = "workPart" THEN part ELSE r[f]] :
               part \in parts, r \in rest}

InitTransform ==
    /\ ApiIdle
    /\ InitSheets
    /\ InitCollector({})
    /\ CheckoutIdle /\ RetryIdle
    /\ sData = <<>> /\ sCall = NoCall
    /\ \/ /\ tRecord \in Objects(ColumnSet, {None, Str(<<"x", " ">>)})
          /\ tOut = [of |-> "commute_end", done |-> FALSE, raised |-> FALSE, rows |-> <<>>]
       \/ /\ tRecord \in WithWorkPart({None, IB, Str(<<"O", "B">>)},
                                      Objects(CheckoutFieldSet, {None, Str(<<"x", " ">>)}))
          /\ tOut = [of |-> "checkout", done |-> FALSE, raised |-> FALSE, rows |-> <<>>]

\* commute_end.process_data([tRecord])
ProcessDataCall ==
    /\ tOut.of = "commute_end" /\ ~tOut.done
    /\ tOut' = [tOut EXCEPT !.done = TRUE, !.rows = process_data(<<tRecord>>)]
    /\ UNCHANGED <<envVars, collectorVars, checkoutVars, retryVars, tRecord, sData, sCall>>

\* checkout.process_data([tRecord])
CheckoutProcessDataCall ==
    /\ tOut.of = "checkout" /\ ~tOut.done
    /\ tOut' = [tOut EXCEPT !.done = TRUE,
                            !.raised = checkout_process_data(<<tRecord>>).raised,
                            !.rows = checkout_process_data(<<tRecord>>).rows]
    /\ UNCHANGED <<envVars, collectorVars, checkoutVars, retryVars, tRecord, sData, sCall>>

NextTransform == ProcessDataCall \/ CheckoutProcessDataCall

SpecTransform == InitTransform /\ [][NextTransform]_vars

(***************************************************************************)
(* checkout.process_data applied to a response of well-formed records.     *)
(***************************************************************************)
\* well-formed records of every work part, contract type and name used here
WellFormedRecords ==
    {CheckoutRecord(part, contract, name) :
        part \in {IB, Str(<<"O", "B">>)},
        contract \in {CONTRACT, Str(<<"D", "A", "Y">>)},
        name \in {Str(<<"a", " ", "b">>), Str(<<"c">>)}}

\* the responses of at most MaxResponse well-formed records
WellFormedResponses == UNION {[1..n -> WellFormedRecords] : n \in 0..MaxResponse}

InitFilter ==
    /\ ApiIdle
    /\ InitSheets
    /\ InitCollector({})
    /\ CheckoutIdle /\ RetryIdle
    /\ tRecord = <<>>
    /\ sData \in WellFormedResponses
    /\ sCall = NoCall
    /\ tOut = [of |-> "checkout", done |-> FALSE, raised |-> FALSE, rows |-> <<>>]

\* checkout.process_data(sData)
CheckoutProcessResponseCall ==
    /\ tOut.of = "checkout" /\ ~tOut.done
    /\ tOut' = [tOut EXCEPT !.done = TRUE,
                            !.raised = checkout_process_data(sData).raised,
                            !.rows = checkout_process_data(sData).rows]
    /\ UNCHANGED <<envVars, collectorVars, checkoutVars, retryVars, tRecord, sData, sCall>>

NextFilter == CheckoutProcessResponseCall

SpecFilter == InitFilter /\ [][NextFilter]_vars

(***************************************************************************)
(* update_spreadsheet, and the scheduler step around it, called once and   *)
(* again on the same worksheet with the same data.                         *)
(***************************************************************************)
InitSink ==
    /\ ApiIdle
    /\ InitSheets
    /\ InitCollector({})
    /\ CheckoutIdle /\ RetryIdle
    /\ tRecord = <<>> /\ tOut = <<>>
    /\ sData \in Lists(GoodRecords)
    /\ sCall = NoCall

\* the rows the function of a call is given for the data sData
RowsGiven(kind, data) ==
    IF kind \in {"update_spreadsheet", "main"} THEN process_data(data)
    ELSE checkout_process_data(data).rows

\* a call, the first or the second, of the function `kind` on worksheet t,
\* which leaves it as `after` having made `made` calls on it
SinkCall(kind, t, after, made, raises) ==
    /\ sCall.n < 2
    /\ sCall.n > 0 => (sCall.kind = kind /\ sCall.target = t)
    /\ sheet' = [sheet EXCEPT ![t] = after]
    /\ calls' = calls \cup {<<t, c>> : c \in made}
    /\ sCall' = [kind |-> kind, target |-> t, n |-> sCall.n + 1,
                 first |-> IF sCall.n = 0 THEN after ELSE sCall.first,
                 raised |-> sCall.raised \/ raises]
    /\ UNCHANGED <<api, issued, rejected, collectorVars, checkoutVars, retryVars>>
    /\ UNCHANGED <<tRecord, tOut, sData>>

\* commute_end.update_spreadsheet(t, rows)
UpdateSpreadsheetCall ==
    \E t \in Sheets, fault \in SinkFaults :
        LET rows == RowsGiven("update_spreadsheet", sData) IN
        SinkCall("update_spreadsheet", t, update_spreadsheet(sheet[t], rows, fault),
                 UpdateCalls(rows, fault), UpdateRaises(rows, fault))

\* checkout.update_spreadsheet(t, rows)
CheckoutUpdateSpreadsheetCall ==
    \E t \in Sheets, fault \in SinkFaults :
        LET rows == RowsGiven("checkout_update_spreadsheet", sData) IN
        SinkCall("checkout_update_spreadsheet", t,
                 checkout_update_spreadsheet(sheet[t], rows, fault),
                 UpdateCalls(rows, fault), UpdateRaises(rows, fault))

\* commute_end.main lines 190-193 for a future that returned sData
MainStepCall ==
    \E t \in Sheets, fault \in SinkFaults :
        LET rows == RowsGiven("main", sData) IN
        SinkCall("main", t, SubCycleSink(sheet[t], sData, fault),
                 IF Truthy(rows) THEN UpdateCalls(rows, fault) ELSE {},
                 SubCycleRaises(sData, fault))

\* checkout.run lines 112-113 for the rows of sData
RunStepCall ==
    \E t \in Sheets, fault \in SinkFaults :
        LET rows == RowsGiven("run", sData) IN
        SinkCall("run", t, RunSink(sheet[t], rows, fault),
                 RunCalls(rows, fault), RunSinkRaises(rows, fault))

NextSink ==
    \/ UpdateSpreadsheetCall
    \/ CheckoutUpdateSpreadsheetCall
    \/ MainStepCall
    \/ RunStepCall

SpecSink == InitSink /\ [][NextSink]_vars

(***************************************************************************)
(* Claims about commute_end.py.                                            *)
(***************************************************************************)
\* the pages of date d whose fetch failed and was logged by get_page_data
Dropped(d) == {p \in DOMAIN fut[d] : <<"page", d, p>> \in log}

\* C1: whenever get_data returns and no page was dropped, its result is the
\* concatenation of the pages' records in ascending page index, whatever the
\* order in which the page fetches completed.
C1_AscendingPageOrder ==
    \A d \in Dates :
        (pc[d] = "returned" /\ Dropped(d) = {}) => result[d] = Concat(api[d])

\* the actions of date d's sub-cycle: its get_data thread, its page workers
\* and main's handling of its future
SubCycleStep(d) ==
    \/ CheckToken(d) \/ LoginPost(d) \/ LoginStore(d)
    \/ LoginHeaderRead(d) \/ LoginHeader(d)
    \/ FirstPageSend(d) \/ FirstPage(d) \/ Dispatch(d) \/ Return(d)
    \/ ProcessFuture(d) \/ ClearWorksheet(d) \/ WriteWorksheet(d)
    \/ \E p \in LaterPages : StartFetch(d, p) \/ FinishFetch(d, p) \/ Collect(d, p)

\* C3: when a date's sub-cycle has failed, the failure is logged, and the
\* sibling date's sub-cycle is not aborted: it was handled by main in its own
\* right (written, skipped for want of rows, or failed and logged itself) or
\* it can still take its next step; and once it is written, its worksheet
\* holds exactly the rows of its own result.
C3_SiblingNotAborted ==
    \A d \in Dates : \A e \in Dates \ {d} :
        handled[d] = "failed" =>
            /\ <<"processing", d>> \in log
            /\ \/ handled[e] = "waiting" /\ ENABLED SubCycleStep(e)
               \/ handled[e] = "skipped" /\ ~Truthy(process_data(result[e]))
               \/ handled[e] = "failed" /\ <<"processing", e>> \in log
               \/ /\ handled[e] = "written"
                  /\ Truthy(result[e])
                  /\ sheet[SheetName(e)] = Stored(process_data(result[e]))

\* C3 witness: login failed for one date's get_data and the sibling's
\* worksheet was replaced by the sibling's rows.
C3_Witness ==
    \E d \in Dates : \E e \in Dates \ {d} :
        /\ <<"get_data", d, "login">> \in log
        /\ handled[d] = "failed"
        /\ handled[e] = "written"
        /\ sheet[SheetName(e)] = Stored(process_data(Concat(api[e])))

\* a GET request of date d is sent in this step
SendsRequest(d) ==
    \/ pc[d] = "first_page" /\ pc'[d] # "first_page"
    \/ \E p \in DOMAIN fut[d] : fut[d][p] = "queued" /\ fut'[d][p] = "running"

\* C9: no request is sent with a token that an earlier response has rejected
\* with 401: the collector logs in again before its next request.
C9_ReloginAfter401 ==
    [][\A d \in Dates : SendsRequest(d) => header \notin rejected]_vars

\* the first page's request of date d failed
FirstPageFailed(d) ==
    <<"get_data", d, "unauthorized">> \in log \/ <<"get_data", d, "error">> \in log

\* C10: when the first page's request fails, get_data raises with nothing
\* collected, no later page is ever dispatched, and main leaves the date's
\* worksheet alone: no batch_clear and no update is called on it.
C10_FirstPageFailureFailsDate ==
    \A d \in Dates :
        FirstPageFailed(d) =>
            /\ pc[d] = "raised"
            /\ result[d] = <<>>
            /\ \A p \in LaterPages : fut[d][p] = "none"
            /\ handled[d] \in {"waiting", "failed"}
            /\ \A c \in calls : c[1] # SheetName(d)

\* C10 witness: the first page failed for a date whose collection has later
\* pages, and main has handled the failed future.
C10_Witness ==
    \E d \in Dates :
        FirstPageFailed(d) /\ Len(api[d]) > 1 /\ handled[d] = "failed"

(***************************************************************************)
(* Claims about update_spreadsheet, process_data, the retrying session and *)
(* the loop of checkout.py.                                                *)
(***************************************************************************)
\* this step is a call, of update_spreadsheet or of a scheduler step, that
\* is given zero rows
CallWithZeroRows ==
    sCall'.n = sCall.n + 1 /\ ~Truthy(RowsGiven(sCall'.kind, sData))

\* C2: a call of update_spreadsheet (either file's) or of the scheduler step
\* around it that is given zero rows makes no batch_clear and no update call
\* and leaves every worksheet as it was.
C2_EmptyRowsLeaveTarget ==
    [][CallWithZeroRows => (sheet' = sheet /\ calls' = calls)]_vars

\* C2 witness: after a call that was given zero rows the worksheet still holds
\* the rows it held before, and no call was made on it.
C2_Witness ==
    /\ sCall.n >= 1
    /\ ~Truthy(RowsGiven(sCall.kind, sData))
    /\ sheet[sCall.target] = OldRows
    /\ calls = {}

\* C4: when today's sub-cycle of run() fails, yesterday's sub-cycle is still
\* attempted in the same iteration of the loop.
C4_YesterdayStillAttempted ==
    (cpc = "sleep" /\ lastRun = "failed" /\ cdate = "today")
        => "yesterday" \in attempted

\* the first step of run() in a new iteration
CycleStart == cpc = "getdata" /\ cdate = "today" /\ attempted = {}

\* run() ends in this step, by returning or by raising
RunEnds == cpc \in {"getdata", "update"} /\ cpc' \notin {"getdata", "update"}

\* run() raises in this step and the loop logs the exception
RunFails == <<"main_loop">> \notin log /\ <<"main_loop">> \in log'

\* C5: no exception of run() ends the loop: whenever run() ends, failed or
\* not, the loop goes to its sleep, and every sleep is followed by the start
\* of the next run().
C5_NextCycleAlwaysStarts ==
    /\ [][(RunEnds \/ RunFails) => cpc' = "sleep"]_vars
    /\ (cpc = "sleep") ~> CycleStart

\* C5 witness: run() raised, the loop caught and logged it and is sleeping.
C5_Witness ==
    cpc = "sleep" /\ lastRun = "failed" /\ <<"main_loop">> \in log

\* the page fetch is over for the session: a response came back or
\* session.get raised
FetchOver == rState \in {"responded", "raised", "content", "empty"}

\* the page fetch failed
FetchFailed ==
    \/ rState \in {"raised", "empty"}
    \/ rState = "responded" /\ ResponseData(rAnswers[Len(rAnswers)]) # "ok"

\* every attempt so far was answered with a status of S
AllAnswersIn(S) == \A k \in 1..Len(rAnswers) : rAnswers[k].status \in S

\* C6 as claimed: a page fetch answered 5xx at every attempt fails after
\* exactly 3 HTTP requests.
C6_ExactlyThreeRequests ==
    (FetchOver /\ AllAnswersIn(500..599)) => (FetchFailed /\ Len(rAnswers) = 3)

\* the attempts, among those that may be retried, whose answer carries a
\* Retry-After header that cannot be read (an empty one included)
UnreadableRetryAfter ==
    {k \in 1..Len(rAnswers) :
        k <= RetryTotal /\ InvalidRetryAfter(rAnswers[k])}

\* C6: a page fetch answered with a status of the retry list (500, 502, 503,
\* 504) at every attempt fails, and after exactly RetryTotal + 1 = 4 HTTP
\* requests, the first attempt and the 3 retries, when no answer to be
\* retried carries a Retry-After header that cannot be read; the first answer
\* that does ends the fetch at that request.
C6_FirstAttemptPlusRetries ==
    (FetchOver /\ AllAnswersIn(StatusForcelist))
        => /\ FetchFailed
           /\ IF UnreadableRetryAfter = {}
              THEN Len(rAnswers) = RetryTotal + 1
              ELSE UnreadableRetryAfter = {Len(rAnswers)}

\* C6 witness: get_page_data returned the empty page after four 503 answers.
C6_Witness ==
    rState = "empty" /\ rAnswers = [k \in 1..4 |-> Answer(503, "absent", FALSE)]

\* every field of the record is null or absent
AllNullOrAbsent(r) == \A f \in DOMAIN r : r[f] = None

\* the row of n cells ''
DefaultRow(n) == [c \in 1..n |-> EmptyStr]

\* C7: process_data never fails, and a record whose every field is null or
\* absent gives one row of the schema's length (8 cells in commute_end.py, 7
\* in checkout.py) whose every cell is ''.
C7_NullRecordGivesDefaultRow ==
    tOut.done =>
        /\ ~tOut.raised
        /\ AllNullOrAbsent(tRecord) =>
              tOut.rows = <<DefaultRow(IF tOut.of = "commute_end"
                                       THEN Len(Columns) ELSE Len(CheckoutFields))>>

\* C8: after two successful calls of update_spreadsheet with the same rows the
\* worksheet is as the first call left it.
C8_ReplaceIdempotent ==
    (sCall.n = 2 /\ ~sCall.raised) => sheet[sCall.target] = sCall.first

\* C8 witness: two successful calls with rows, on a worksheet that now holds
\* exactly those rows.
C8_Witness ==
    /\ sCall.n = 2 /\ ~sCall.raised
    /\ Truthy(RowsGiven(sCall.kind, sData))
    /\ sheet[sCall.target] = Stored(RowsGiven(sCall.kind, sData))

(***************************************************************************)
(* Claims about the pages and the login of commute_end.py.                 *)
(***************************************************************************)
\* the records of a sequence with their multiplicities
BagOf(seq) ==
    [x \in {seq[k] : k \in DOMAIN seq} |->
        Cardinality({k \in DOMAIN seq : seq[k] = x})]

\* the records of date d's pages, in page order, without the dropped pages
KeptRecords(d) ==
    Concat([p \in 1..Len(api[d]) |->
               IF p \in Dropped(d) THEN <<>> ELSE api[d][p]])

\* C11: a failed fetch of a later page is logged by get_page_data and gives
\* an empty page; get_data does not raise for it, and when it returns, its
\* result holds the records of page 1 and of every page that was not
\* dropped, each once, and none of a dropped page.
C11_DroppedPagesOnly ==
    \A d \in Dates :
        /\ \A p \in DOMAIN fut[d] : fut[d][p] = "empty" => p \in Dropped(d)
        /\ Dropped(d) # {} => pc[d] \in {"dispatch", "collect", "returned"}
        /\ pc[d] = "returned" => BagOf(result[d]) = BagOf(KeptRecords(d))

\* C11 witness: of three pages the second was dropped, and get_data returned
\* the records of pages 1 and 3.
C11_Witness ==
    /\ pc["today"] = "returned"
    /\ Len(api["today"]) = 3
    /\ Dropped("today") = {2}
    /\ result["today"] = api["today"][1] \o api["today"][3]

\* C12: every GET request goes out with the session carrying the header of
\* the collector's token: none is sent between login's assignment of
\* self.token and its update of the session's headers.
C12_TokenAndHeaderInStep ==
    [][\A d \in Dates : SendsRequest(d) => header = token]_vars

\* date d's get_data has sent a page request or holds something of a page
PageRequested(d) ==
    \/ total[d] # 0 \/ result[d] # <<>>
    \/ \E p \in DOMAIN fut[d] : fut[d][p] # "none"
    \/ \E o \in {"unauthorized", "error"} : <<"get_data", d, o>> \in log

\* C13: a get_data call attempts login at most once, straight after finding
\* the token unset. If the login fails, the call raises without any page
\* request, the failed login leaves the collector's token and the session's
\* header as they were (unset, on a fresh collector), and a get_data call
\* that then finds the token unset attempts login again.
C13_LoginFailureFailsCall ==
    /\ [](\A d \in Dates :
            <<"get_data", d, "login">> \in log =>
                pc[d] = "raised" /\ ~PageRequested(d))
    /\ [][\A d \in Dates :
            /\ pc'[d] = "login_post" => pc[d] \in {"check_token", "login_post"}
            /\ pc'[d] = "check_token" => pc[d] = "check_token"
            /\ (pc[d] = "login_post" /\ pc'[d] = "raised") =>
                  /\ token' = token /\ header' = header /\ issued' = issued
                  /\ <<"get_data", d, "login">> \in log'
            /\ (pc[d] = "check_token" /\ token = None /\ pc'[d] # pc[d]) =>
                  pc'[d] = "login_post"]_vars

\* C13 witness: one date's login has failed and its get_data raised, the
\* token and the header are still unset, and the other date's get_data is
\* about to test the token.
C13_Witness ==
    \E d \in Dates : \E e \in Dates \ {d} :
        /\ <<"get_data", d, "login">> \in log
        /\ pc[d] = "raised"
        /\ token = None /\ header = None
        /\ pc[e] = "check_token"

\* the page fetches in flight, over both dates
InFlight == UNION {{<<d, p>> : p \in Running(d)} : d \in Dates}

\* C14: at most 4 fetches of later pages are in flight within one get_data
\* call, however many pages there are, and at most 8 over the two get_data
\* calls that main runs concurrently.
C14_BoundedInFlight ==
    /\ \A d \in Dates : Cardinality(Running(d)) <= 4
    /\ Cardinality(InFlight) <= 8

\* C14 witness: in each of the two pools a fetch has finished and the page
\* that waited has taken the worker: 8 fetches are in flight again.
C14_Witness ==
    /\ Cardinality(InFlight) = 8
    /\ \A d \in Dates :
          /\ fut[d][PoolPages] = "running"
          /\ \E p \in BusyPages : fut[d][p] \in {"content", "empty"}

\* the page fetches of date d that were dispatched and have not finished
Outstanding(d) == {p \in DOMAIN fut[d] : fut[d][p] \in {"queued", "running"}}

\* C15: once get_data has returned or raised, none of the page fetches it
\* dispatched is pending or running, whatever their outcomes were.
C15_DrainedBeforeReturn ==
    \A d \in Dates : pc[d] \in {"returned", "raised"} => Outstanding(d) = {}

\* C15 witness: get_data returned after two page fetches, one that failed
\* and one that succeeded, both finished and yielded.
C15_Witness ==
    /\ pc["today"] = "returned"
    /\ Dropped("today") = {3}
    /\ fut["today"][2] = "yielded" /\ fut["today"][3] = "yielded"
    /\ Len(result["today"]) = 2 * PageSize

\* C16: once page 1 has reported totalPages = N, get_data submits one
\* get_page_data call for each page of 2..N and for no other page, each call
\* sends its request once and is never submitted again, total_pages is not
\* read again after the first page, and when no fetch failed the result
\* holds exactly the records of pages 1..N, each as often as the pages do.
C16_EachPageOnce ==
    /\ [](\A d \in Dates :
            /\ pc[d] \in {"collect", "returned"} =>
                  /\ total[d] = Len(api[d])
                  /\ \A p \in DOMAIN fut[d] :
                        fut[d][p] # "none" <=> p \in 2..total[d]
            /\ (pc[d] = "returned" /\ Dropped(d) = {}) =>
                  BagOf(result[d]) = BagOf(Concat(api[d])))
    /\ [][\A d \in Dates :
            /\ \A p \in DOMAIN fut[d] :
                  /\ (fut'[d][p] = "running" /\ fut[d][p] # "running") =>
                        fut[d][p] = "queued"
                  /\ (fut'[d][p] = "queued" /\ fut[d][p] # "queued") =>
                        (fut[d][p] = "none" /\ pc[d] = "dispatch")
            /\ total'[d] # total[d] => pc[d] = "first_response"]_vars

\* C16 witness: three pages, every fetch succeeded, and get_data returned
\* all their records.
C16_Witness ==
    /\ pc["today"] = "returned"
    /\ total["today"] = 3
    /\ Dropped("today") = {}
    /\ Len(result["today"]) = 3 * PageSize
    /\ BagOf(result["today"]) = BagOf(Concat(api["today"]))

\* C17: over the two get_data calls of main on one collector the login
\* endpoint issues one token only, and the collector's token, once set, is
\* not assigned again.
C17_SingleLogin ==
    /\ [](issued <= 1)
    /\ [][token # None => token' = token]_vars

(***************************************************************************)
(* Claims about checkout.process_data.                                     *)
(***************************************************************************)
\* the positions of the IB records of a response, in ascending order
RECURSIVE IBPositions(_, _)
IBPositions(response, k) ==
    IF k > Len(response) THEN <<>>
    ELSE IF response[k].workPart = IB
         THEN <<k>> \o IBPositions(response, k + 1)
         ELSE IBPositions(response, k + 1)

\* the row of a well-formed IB record, cell by cell as lines 87-93 give it
ExpectedRow(i) ==
    <<IF i.contractType = CONTRACT THEN EmpRegular ELSE EmpDaily,
      StripSpaces(i.userId), StripSpaces(i.name), StripSpaces(i.workProcess),
      StripSpaces(i.workProcessDetail), StripSpaces(i.checkInTime),
      i.checkOutTime>>

\* C18: for a response of well-formed records, checkout.process_data does
\* not raise and returns one row per record whose workPart is 'IB', none for
\* any other record, the rows in the reverse of those records' order in the
\* response.
C18_OnlyIBRowsReversed ==
    tOut.done =>
        LET ib == IBPositions(sData, 1) IN
        /\ ~tOut.raised
        /\ Len(tOut.rows) = Len(ib)
        /\ \A k \in 1..Len(ib) :
              tOut.rows[k] = ExpectedRow(sData[ib[Len(ib) + 1 - k]])

\* C18 witness: a response of an IB record, a record of another work part and
\* a different IB record gave the two IB records' rows, the later one first.
C18_Witness ==
    /\ tOut.done
    /\ \E j \in DOMAIN sData : sData[j].workPart # IB
    /\ Len(IBPositions(sData, 1)) >= 2
    /\ Len(tOut.rows) = Len(IBPositions(sData, 1))
    /\ tOut.rows[1] # tOut.rows[Len(tOut.rows)]
    /\ tOut.rows[1] = ExpectedRow(sData[IBPositions(sData, 1)[Len(tOut.rows)]])

====
